---- MODULE Spec2Model ----
(***************************************************************************)
(* A model of jni-mangle: the `mangle` and `mangle_raw` attribute macros,  *)
(* the JNI name escaper and the Java identifier validators.                *)
(*                                                                         *)
(* A Rust `char` is modelled by its code point (an integer) and a `String` *)
(* by the sequence of its code points.  Option<T> is modelled by a         *)
(* sequence of length 0 (None) or 1 (Some).                                *)
(***************************************************************************)
EXTENDS Integers, Sequences, FiniteSets, TLC

VARIABLES pc, macro, attr, func, raw, emitted, diag, panicked,
          s, t, es, et, v, verdict, items, names

vars == <<pc, macro, attr, func, raw, emitted, diag, panicked,
          s, t, es, et, v, verdict, items, names>>

None == <<>>
Some(x) == <<x>>

(* All strings over an alphabet, up to a length. *)
Strs(chars, n) == UNION {[1..k -> chars] : k \in 0..n}

(***************************************************************************)
(* Bounds.                                                                 *)
(***************************************************************************)
MaxEscLen == 2
MaxValLen == 3
MaxNameLen == 1
MaxParams == 2
MaxCrateLen == 3

(***************************************************************************)
(* utils/escape.rs                                                         *)
(***************************************************************************)
(* char::is_ascii *)
is_ascii(c) == c < 128

(* one lowercase hexadecimal digit, as `{:x}` prints it *)
HexChar(d) == IF d < 10 THEN 48 + d ELSE 97 + (d - 10)

RECURSIVE HexDigits(_)
HexDigits(n) ==
    IF n < 16 THEN <<HexChar(n)>>
    ELSE HexDigits(n \div 16) \o <<HexChar(n % 16)>>

RECURSIVE ZeroPad(_, _)
ZeroPad(h, w) == IF Len(h) >= w THEN h ELSE ZeroPad(<<48>> \o h, w)

(* str::to_lowercase, on the characters `{:04x}` can print *)
to_lowercase(h) == [i \in 1..Len(h) |-> IF h[i] \in 65..90 THEN h[i] + 32 ELSE h[i]]

(* format!("{:04x}", raw_char).to_lowercase() *)
format_04x(n) == to_lowercase(ZeroPad(HexDigits(n), 4))

escape_char_upper(c) ==
    IF c = 95 THEN <<95, 49>>
    ELSE IF c = 59 THEN <<95, 50>>
    ELSE IF c = 91 THEN <<95, 51>>
    ELSE IF c = 46 THEN <<95>>
    ELSE IF is_ascii(c) THEN <<c>>
    ELSE <<95, 48>> \o [i \in 1..Len(format_04x(c)) |->
            IF format_04x(c)[i] \in 97..122 THEN format_04x(c)[i] - 32
            ELSE format_04x(c)[i]]

escape_char_semi(c) ==
    IF c = 95 THEN <<95, 49>>
    ELSE IF c = 59 THEN <<95, 49>>
    ELSE IF c = 91 THEN <<95, 51>>
    ELSE IF c = 46 THEN <<95>>
    ELSE IF is_ascii(c) THEN <<c>>
    ELSE <<95, 48>> \o format_04x(c)

(* the `match c` of the loop body: '_' 95, ';' 59, '[' 91, '.' 46 *)
escape_char(c) ==
    IF c = 95 THEN <<95, 49>>
    ELSE IF c = 59 THEN <<95, 50>>
    ELSE IF c = 91 THEN <<95, 51>>
    ELSE IF c = 46 THEN <<95>>
    ELSE IF is_ascii(c) THEN <<c>>
    ELSE <<95, 48>> \o format_04x(c)

RECURSIVE escape_loop(_, _, _)
escape_loop(str, i, result) ==
    IF i > Len(str) THEN result
    ELSE escape_loop(str, i + 1, result \o escape_char(str[i]))

escape_string(str) == escape_loop(str, 1, <<>>)

(***************************************************************************)
(* utils/validators.rs: the regular expressions, as syntax trees, and the  *)
(* matcher of the regex crate (leftmost search, no multi-line mode).       *)
(***************************************************************************)
Class(set)  == [kind |-> "class", set |-> set, subs |-> <<>>]
Cat(subs)   == [kind |-> "cat", set |-> {}, subs |-> subs]
Star(sub)   == [kind |-> "star", set |-> {}, subs |-> <<sub>>]
StartText   == [kind |-> "start", set |-> {}, subs |-> <<>>]
EndText     == [kind |-> "end", set |-> {}, subs |-> <<>>]

Lower == 97..122
Upper == 65..90
Digit == 48..57

JAVA_IDENTIFIER_RE_digit ==
    Cat(<<Class(Lower \cup Upper \cup Digit \cup {36, 95}),
          Star(Class(Lower \cup Upper \cup Digit \cup {95, 36}))>>)

(* [a-zA-Z\$_][a-zA-Z0-9_\$]* *)
JAVA_IDENTIFIER_RE ==
    Cat(<<Class(Lower \cup Upper \cup {36, 95}),
          Star(Class(Lower \cup Upper \cup Digit \cup {95, 36}))>>)

(* ^{}(?:\.{})*$ *)
PackageRe ==
    Cat(<<StartText, JAVA_IDENTIFIER_RE,
          Star(Cat(<<Class({46}), JAVA_IDENTIFIER_RE>>)), EndText>>)

(* ^{}$ *)
MethodRe == Cat(<<StartText, JAVA_IDENTIFIER_RE, EndText>>)

(* Ends(re, str, i): the positions at which a match of re that starts at   *)
(* position i of str can end (positions are 1..Len(str)+1).                *)
RECURSIVE Ends(_, _, _)
RECURSIVE CatEnds(_, _, _, _)
RECURSIVE StarEnds(_, _, _, _)
Ends(re, str, i) ==
    CASE re.kind = "class" ->
            IF i <= Len(str) /\ str[i] \in re.set THEN {i + 1} ELSE {}
      [] re.kind = "start" -> IF i = 1 THEN {i} ELSE {}
      [] re.kind = "end" -> IF i = Len(str) + 1 THEN {i} ELSE {}
      [] re.kind = "cat" -> CatEnds(re.subs, 1, str, {i})
      [] re.kind = "star" -> StarEnds(re.subs[1], str, {i}, {i})

CatEnds(subs, k, str, from) ==
    IF k > Len(subs) \/ from = {} THEN from
    ELSE CatEnds(subs, k + 1, str, UNION {Ends(subs[k], str, i) : i \in from})

StarEnds(sub, str, seen, frontier) ==
    LET next == UNION {Ends(sub, str, i) : i \in frontier} \ seen
    IN IF next = {} THEN seen ELSE StarEnds(sub, str, seen \cup next, next)

(* Regex::is_match: a match starting anywhere in the haystack *)
is_match(re, str) == \E i \in 1..(Len(str) + 1) : Ends(re, str, i) # {}

is_valid_package(package) == is_match(PackageRe, package)

is_valid_class(class_name) == is_valid_package(class_name)

is_valid_method(method_name) == is_match(MethodRe, method_name)

(***************************************************************************)
(* lib.rs: the syntax the macros work on.                                  *)
(*   FnArg   [kind: "Receiver" | "Typed", pat]                             *)
(*   Block   [kind: "original" | "call", func, args]                       *)
(*   ItemFn  [ident, abi: Option, inputs: Seq(FnArg), block]               *)
(* The token stream a macro returns is a sequence of attributed items.     *)
(***************************************************************************)
Receiver == [kind |-> "Receiver", pat |-> "self"]
Typed(pat) == [kind |-> "Typed", pat |-> pat]

OriginalBlock == [kind |-> "original", func |-> <<>>, args |-> <<>>]
CallBlock(f, args) == [kind |-> "call", func |-> f, args |-> args]

ItemFn(ident, inputs) ==
    [ident |-> ident, abi |-> None, inputs |-> inputs, block |-> OriginalBlock]

(* quote! { #[no_mangle] #[allow(non_snake_case)] #item } *)
Exported(item) == [attrs |-> <<"no_mangle", "allow(non_snake_case)">>, item |-> item]

mangle_raw_always_alias(args, input_fn) ==
    LET output_fn == [input_fn EXCEPT !.ident = args.name, !.abi = Some("system")]
        alias_fn == [input_fn EXCEPT !.block =
            CallBlock(input_fn.ident,
                      [i \in 1..Len(input_fn.inputs) |-> input_fn.inputs[i].pat])]
    IN IF \E i \in 1..Len(input_fn.inputs) : input_fn.inputs[i].kind = "Receiver"
       THEN IF args.alias THEN [panicked |-> TRUE, tokens |-> <<>>]
            ELSE [panicked |-> FALSE, tokens |-> <<Exported(output_fn)>>]
       ELSE [panicked |-> FALSE, tokens |-> <<Exported(output_fn), Exported(alias_fn)>>]

mangle_raw_skip_receiver(args, input_fn) ==
    LET output_fn == [input_fn EXCEPT !.ident = args.name, !.abi = Some("system")]
        typed == SelectSeq(input_fn.inputs, LAMBDA a : a.kind = "Typed")
        alias_fn == [input_fn EXCEPT !.block =
            CallBlock(input_fn.ident, [i \in 1..Len(typed) |-> typed[i].pat])]
    IN IF args.alias
       THEN [panicked |-> FALSE, tokens |-> <<Exported(output_fn), Exported(alias_fn)>>]
       ELSE [panicked |-> FALSE, tokens |-> <<Exported(output_fn)>>]

(* mangle_raw, after its attribute arguments were parsed into              *)
(* MangleRawArgs [name, alias] and its input into an ItemFn.               *)
mangle_raw(args, input_fn) ==
    LET rust_name_ident == input_fn.ident
        output_fn == [input_fn EXCEPT !.ident = args.name, !.abi = Some("system")]
        output == <<Exported(output_fn)>>
        has_receiver ==
            \E i \in 1..Len(input_fn.inputs) : input_fn.inputs[i].kind = "Receiver"
        inner_fn_args_list ==
            [i \in 1..Len(input_fn.inputs) |-> input_fn.inputs[i].pat]
        alias_fn == [input_fn EXCEPT
                        !.ident = rust_name_ident,
                        !.block = CallBlock(rust_name_ident, inner_fn_args_list)]
    IN IF args.alias
       THEN IF has_receiver
            THEN [panicked |-> TRUE, tokens |-> <<>>]
            ELSE [panicked |-> FALSE, tokens |-> output \o <<Exported(alias_fn)>>]
       ELSE [panicked |-> FALSE, tokens |-> output]

Java_ == <<74, 97, 118, 97, 95>>

mangled_fn_name_no_sep(args, output_function_name) ==
    LET base == Java_ \o escape_string(args.package)
                      \o escape_string(args.class)
                      \o escape_string(output_function_name)
    IN IF args.args # None
       THEN base \o <<95, 95>> \o escape_string(args.args[1])
       ELSE base

mangled_fn_name_always_suffix(args, output_function_name) ==
    LET base == Java_ \o escape_string(args.package) \o <<95>>
                      \o escape_string(args.class) \o <<95>>
                      \o escape_string(output_function_name)
    IN base \o <<95, 95>>
            \o (IF args.args # None THEN escape_string(args.args[1]) ELSE <<>>)

(* format!("Java_{}_{}_{}", ..) and the push_str of "__{}" *)
mangled_fn_name(args, output_function_name) ==
    LET base == Java_ \o escape_string(args.package) \o <<95>>
                      \o escape_string(args.class) \o <<95>>
                      \o escape_string(output_function_name)
    IN IF args.args # None
       THEN base \o <<95, 95>> \o escape_string(args.args[1])
       ELSE base

(* syn::Error::new_spanned(tokens, message).to_compile_error() *)
CompileError(tokens, message) == [tokens |-> tokens, message |-> message]

Rejected(error) ==
    [raw |-> None, panicked |-> FALSE, tokens |-> <<>>, diag |-> <<error>>]

Delegated(raw_args, input) ==
    LET expansion == mangle_raw(raw_args, input)
    IN [raw |-> Some(raw_args),
        panicked |-> expansion.panicked,
        tokens |-> expansion.tokens,
        diag |-> <<>>]

mangle_class_first(args, input) ==
    LET output_function_name ==
            IF args.method # None THEN args.method[1] ELSE input.ident
    IN IF ~is_valid_class(args.class)
       THEN Rejected(CompileError(args.class, "Invalid Java class name"))
       ELSE IF ~is_valid_package(args.package)
       THEN Rejected(CompileError(args.package, "Invalid Java package name"))
       ELSE IF ~is_valid_method(output_function_name)
       THEN Rejected(CompileError(output_function_name, "Invalid Java method name"))
       ELSE Delegated([name |-> mangled_fn_name(args, output_function_name),
                       alias |-> IF args.alias # None THEN args.alias[1] ELSE TRUE],
                      input)

(* mangle, after its attribute arguments were parsed into MangleArgs       *)
(* [package, class, method, args, alias] and its input into an ItemFn.     *)
mangle(args, input) ==
    LET input_function_name == input.ident
        output_function_name ==
            IF args.method # None THEN args.method[1] ELSE input_function_name
        should_alias == IF args.alias # None THEN args.alias[1] ELSE TRUE
    IN IF ~is_valid_package(args.package)
       THEN Rejected(CompileError(args.package, "Invalid Java package name"))
       ELSE IF ~is_valid_class(args.class)
       THEN Rejected(CompileError(args.class, "Invalid Java class name"))
       ELSE IF ~is_valid_method(output_function_name)
       THEN Rejected(CompileError(output_function_name, "Invalid Java method name"))
       ELSE Delegated([name |-> mangled_fn_name(args, output_function_name),
                       alias |-> should_alias],
                      input)

(***************************************************************************)
(* The inputs the macros are expanded on.                                  *)
(***************************************************************************)
(* '.', '$' *)
NameChars == {46, 36}

com_example == <<99, 111, 109, 46, 101, 120, 97, 109, 112, 108, 101>>
Example == <<69, 120, 97, 109, 112, 108, 101>>
addTwoNumbers == <<97, 100, 100, 84, 119, 111, 78, 117, 109, 98, 101, 114, 115>>
add_two_numbers == <<97, 100, 100, 95, 116, 119, 111, 95, 110, 117, 109, 98, 101, 114, 115>>
Java_com_example_Example_addTwoNumbers ==
    <<74, 97, 118, 97, 95, 99, 111, 109, 95, 101, 120, 97, 109, 112, 108, 101, 95,
      69, 120, 97, 109, 112, 108, 101, 95,
      97, 100, 100, 84, 119, 111, 78, 117, 109, 98, 101, 114, 115>>

NameStrs == Strs(NameChars, MaxNameLen)

Packages == NameStrs \cup {com_example}
Classes == NameStrs \cup {Example}
Methods == NameStrs \cup {addTwoNumbers}

(* "II", "_" *)
ArgsStrs == {<<73, 73>>, <<95>>}

(* a Rust identifier need not be a Java one: U+00E9 is a legal Rust name *)
Idents == {add_two_numbers, <<233>>}

Pats == {"a", "b"}

(* parameter lists: a receiver can only come first, patterns bind once *)
ParamLists ==
    {l \in UNION {[1..k -> {Receiver} \cup {Typed(p) : p \in Pats}] : k \in 0..MaxParams} :
        /\ \A i \in 2..Len(l) : l[i].kind = "Typed"
        /\ \A i, j \in 1..Len(l) : i # j => l[i].pat # l[j].pat}

Fns == {ItemFn(id, l) : id \in Idents, l \in ParamLists}

MangleArgs ==
    [package : Packages, class : Classes,
     method : {None} \cup {Some(m) : m \in Methods},
     args : {None} \cup {Some(a) : a \in ArgsStrs},
     alias : {None, Some(TRUE), Some(FALSE)}]

MangleRawArgs ==
    [name : {Java_com_example_Example_addTwoNumbers} \cup Idents, alias : BOOLEAN]

NoArgs == [name |-> <<>>, alias |-> FALSE]
NoFn == ItemFn(<<>>, <<>>)

Init ==
    /\ pc = "idle"
    /\ macro = "none"
    /\ attr = NoArgs
    /\ func = NoFn
    /\ raw = None
    /\ emitted = <<>>
    /\ diag = <<>>
    /\ panicked = FALSE
    /\ s = <<>> /\ t = <<>> /\ es = <<>> /\ et = <<>>
    /\ v = <<>> /\ verdict = <<>>
    /\ items = <<>> /\ names = <<>>

(* #[mangle(package=.., class=.., ..)] on a function *)
Mangle ==
    /\ pc = "idle"
    /\ \E args \in MangleArgs, input \in Fns :
        LET result == mangle(args, input)
        IN /\ macro' = "mangle"
           /\ attr' = args
           /\ func' = input
           /\ raw' = result.raw
           /\ emitted' = result.tokens
           /\ diag' = result.diag
           /\ panicked' = result.panicked
    /\ pc' = "expanded"
    /\ UNCHANGED <<s, t, es, et, v, verdict, items, names>>

(* #[mangle_raw(name=.., alias=..)] on a function *)
MangleRaw ==
    /\ pc = "idle"
    /\ \E args \in MangleRawArgs, input \in Fns :
        LET result == mangle_raw(args, input)
        IN /\ macro' = "mangle_raw"
           /\ attr' = args
           /\ func' = input
           /\ raw' = Some(args)
           /\ emitted' = result.tokens
           /\ diag' = <<>>
           /\ panicked' = result.panicked
    /\ pc' = "expanded"
    /\ UNCHANGED <<s, t, es, et, v, verdict, items, names>>

Next == Mangle \/ MangleRaw

Spec == Init /\ [][Next]_vars

(***************************************************************************)
(* escape_string applied to two strings.                                   *)
(***************************************************************************)
(* 'a', '1', '2', '_', ';', '[', '.', U+1F64, U+1F642 *)
EscChars == {97, 49, 50, 95, 59, 91, 46, 8036, 128578}

Hello_world == <<72, 101, 108, 108, 111, 95, 119, 111, 114, 108, 100>>
Hello_semi_world == <<72, 101, 108, 108, 111, 59, 119, 111, 114, 108, 100>>
Hello_bracket_world == <<72, 101, 108, 108, 111, 91, 119, 111, 114, 108, 100>>
Hello_smile_world == <<72, 101, 108, 108, 111, 128578, 119, 111, 114, 108, 100>>

EscStrs ==
    Strs(EscChars, MaxEscLen)
        \cup {Hello_world, Hello_semi_world, Hello_bracket_world, Hello_smile_world,
              com_example, <<233>>}

InitEscape ==
    /\ pc = "ready"
    /\ s \in EscStrs /\ t \in EscStrs
    /\ es = <<>> /\ et = <<>>
    /\ macro = "none" /\ attr = NoArgs /\ func = NoFn /\ raw = None
    /\ emitted = <<>> /\ diag = <<>> /\ panicked = FALSE
    /\ v = <<>> /\ verdict = <<>>
    /\ items = <<>> /\ names = <<>>

EscapeString ==
    /\ pc = "ready"
    /\ es' = escape_string(s)
    /\ et' = escape_string(t)
    /\ pc' = "escaped"
    /\ UNCHANGED <<macro, attr, func, raw, emitted, diag, panicked,
                   s, t, v, verdict, items, names>>

NextEscape == EscapeString

SpecEscape == InitEscape /\ [][NextEscape]_vars

(***************************************************************************)
(* The three validators applied to one string.                             *)
(***************************************************************************)
(* 'a', 'Z', '9', '_', '$', '.', ' ', '[', U+00E9 *)
ValChars == {97, 90, 57, 95, 36, 46, 32, 91, 233}

my_package == <<109, 121, 95, 112, 97, 99, 107, 97, 103, 101>>
s123abc == <<49, 50, 51, 97, 98, 99>>
myMethod_123 == <<109, 121, 77, 101, 116, 104, 111, 100, 95, 49, 50, 51>>
dollar_myMethod_123 == <<36, 109, 121, 77, 101, 116, 104, 111, 100, 95, 49, 50, 51>>
my_space_method == <<109, 121, 32, 109, 101, 116, 104, 111, 100>>
my_dot_method == <<109, 121, 46, 109, 101, 116, 104, 111, 100>>

ValStrs ==
    Strs(ValChars, MaxValLen)
        \cup {com_example, my_package, s123abc, myMethod_123, dollar_myMethod_123,
              my_space_method, my_dot_method}

InitValidators ==
    /\ pc = "ready"
    /\ v \in ValStrs
    /\ verdict = <<>>
    /\ macro = "none" /\ attr = NoArgs /\ func = NoFn /\ raw = None
    /\ emitted = <<>> /\ diag = <<>> /\ panicked = FALSE
    /\ s = <<>> /\ t = <<>> /\ es = <<>> /\ et = <<>>
    /\ items = <<>> /\ names = <<>>

Validate ==
    /\ pc = "ready"
    /\ verdict' = [package |-> is_valid_package(v),
                   class |-> is_valid_class(v),
                   method |-> is_valid_method(v)]
    /\ pc' = "validated"
    /\ UNCHANGED <<macro, attr, func, raw, emitted, diag, panicked,
                   s, t, es, et, v, items, names>>

NextValidators == Validate

SpecValidators == InitValidators /\ [][NextValidators]_vars

(***************************************************************************)
(* A crate with two annotated functions whose attribute arguments pass     *)
(* validation; `mangle` is expanded on each of them, in any order.         *)
(***************************************************************************)
(* 'a', '.' *)
CrateChars == {97, 46}

CrateStrs == Strs(CrateChars, MaxCrateLen)

(* "a", "aa" *)
CrateMethods == {<<97>>, <<97, 97>>}

(* "II" *)
CrateArgs == {None, Some(<<73, 73>>)}

Bindings ==
    [package : {p \in CrateStrs : is_valid_package(p)},
     class : {c \in CrateStrs : is_valid_class(c)},
     method : {Some(m) : m \in {m \in CrateMethods : is_valid_method(m)}},
     args : CrateArgs,
     alias : {None}]

CrateFn == ItemFn(add_two_numbers, <<Typed("a"), Typed("b")>>)

InitCrate ==
    /\ pc = "ready"
    /\ items \in [1..2 -> Bindings]
    /\ names = [i \in 1..2 |-> None]
    /\ macro = "none" /\ attr = NoArgs /\ func = NoFn /\ raw = None
    /\ emitted = <<>> /\ diag = <<>> /\ panicked = FALSE
    /\ s = <<>> /\ t = <<>> /\ es = <<>> /\ et = <<>>
    /\ v = <<>> /\ verdict = <<>>

(* the expansion of `mangle` on the i-th function: the name it hands to    *)
(* mangle_raw is the name of the entry point it emits                      *)
ExpandItem(i) ==
    /\ names[i] = None
    /\ LET result == mangle(items[i], CrateFn)
       IN names' = [names EXCEPT ![i] =
                        IF result.raw = None THEN None ELSE Some(result.raw[1].name)]
    /\ UNCHANGED <<pc, macro, attr, func, raw, emitted, diag, panicked,
                   s, t, es, et, v, verdict, items>>

NextCrate == \E i \in 1..2 : ExpandItem(i)

SpecCrate == InitCrate /\ [][NextCrate]_vars

(***************************************************************************)
(* Properties.                                                             *)
(***************************************************************************)
HasReceiver(f) == \E i \in 1..Len(f.inputs) : f.inputs[i].kind = "Receiver"

Pats_of(f) == [i \in 1..Len(f.inputs) |-> f.inputs[i].pat]

(* d is the mangled entry point: the function under the target name, with  *)
(* the original body and the "system" ABI                                  *)
IsEntryPoint(d, name) ==
    /\ d.item.ident = name
    /\ d.item.abi = Some("system")
    /\ d.item.block.kind = "original"
    /\ d.item.inputs = func.inputs

(* d is the alias: the function under the original name whose body is a    *)
(* single call                                                             *)
IsAlias(d) ==
    /\ d.item.ident = func.ident
    /\ d.item.abi = None
    /\ d.item.block.kind = "call"
    /\ d.item.inputs = func.inputs

Expanded == pc = "expanded" /\ raw # None

EffectiveMethod == IF attr.method # None THEN attr.method[1] ELSE func.ident

RECURSIVE Concat(_)
Concat(seqs) == IF seqs = <<>> THEN <<>> ELSE Head(seqs) \o Concat(Tail(seqs))

LinkageSafe == Lower \cup Upper \cup Digit \cup {95}

(* ---- C1 ---- *)
(* C1: in mangle_raw with alias=true on a function without a receiver, the *)
(* call that forms the alias's body calls the mangled entry point (the     *)
(* function emitted under the target name) with the parameters' patterns   *)
(* in declaration order, so that a call to the alias returns what the      *)
(* entry point returns.                                                    *)
C1_AliasCallsMangledEntry ==
    (Expanded /\ raw[1].alias /\ ~HasReceiver(func)) =>
        /\ Len(emitted) = 2
        /\ emitted[2].item.block.kind = "call"
        /\ emitted[2].item.block.func = raw[1].name
        /\ emitted[2].item.block.args = Pats_of(func)

(* ---- C2 ---- *)
(* the collisions of the escape table: a '.' followed by one of the digits *)
(* 0..3 reads as an escape sequence, and the hexadecimal form of a code    *)
(* point above U+FFFF is longer than four digits                           *)
Unambiguous(str) ==
    \A i \in 1..Len(str) :
        /\ str[i] <= 65535
        /\ (str[i] = 46 /\ i < Len(str)) => str[i + 1] \notin 48..51

(* C2 as stated: escape_string is injective: two distinct strings have     *)
(* distinct escapes.                                                       *)
C2_EscapeInjective ==
    (pc = "escaped" /\ s # t) => es # et

(* C2 amended: escape_string is injective on the strings in which no '.'   *)
(* is immediately followed by one of the digits 0, 1, 2, 3 and no code     *)
(* point is above U+FFFF.                                                  *)
C2_EscapeInjectiveOnUnambiguous ==
    (pc = "escaped" /\ s # t /\ Unambiguous(s) /\ Unambiguous(t)) => es # et

(* two distinct unambiguous strings, '.', U+1F64 and '_', ';', escaped *)
C2_Witness ==
    /\ pc = "escaped"
    /\ s = <<46, 8036>> /\ t = <<95, 59>>
    /\ es # et

(* ---- C3 ---- *)
BothExpanded == names # <<>> /\ names[1] # None /\ names[2] # None

(* the binding as a tuple (namespace, class, effective method name, args)  *)
BindingTuple(b) == <<b.package, b.class, b.method[1], b.args>>

(* the dotted path namespace.class.method of a binding *)
DottedPath(b) == b.package \o <<46>> \o b.class \o <<46>> \o b.method[1]

(* C3 as stated: two tuples (namespace, class, method, args) that pass     *)
(* validation and differ in a component get different mangled names.       *)
C3_NoCollision ==
    (BothExpanded /\ BindingTuple(items[1]) # BindingTuple(items[2]))
        => names[1] # names[2]

(* C3 amended: two tuples that pass validation and supply no args          *)
(* descriptor get different mangled names whenever their dotted paths      *)
(* namespace.class.method differ.                                          *)
C3_NoCollisionOfPaths ==
    (/\ BothExpanded
     /\ items[1].args = None /\ items[2].args = None
     /\ DottedPath(items[1]) # DottedPath(items[2]))
        => names[1] # names[2]

(* a.a / a / a and a / a / aa, both expanded *)
C3_Witness ==
    /\ BothExpanded
    /\ items[1].args = None /\ items[2].args = None
    /\ items[1].package = <<97, 46, 97>> /\ items[1].class = <<97>>
    /\ items[1].method = Some(<<97>>)
    /\ items[2].package = <<97>> /\ items[2].class = <<97>>
    /\ items[2].method = Some(<<97, 97>>)
    /\ names[1] # names[2]

(* ---- C4 ---- *)
(* C4: the name mangle computes for validated namespace, class and method, *)
(* without args descriptor, has only characters of [A-Za-z0-9_].           *)
C4_LinkageSafeName ==
    (Expanded /\ macro = "mangle" /\ attr.args = None) =>
        \A i \in 1..Len(raw[1].name) : raw[1].name[i] \in LinkageSafe

(* ---- C5 ---- *)
AttrValid ==
    /\ is_valid_package(attr.package)
    /\ is_valid_class(attr.class)
    /\ is_valid_method(EffectiveMethod)

(* C5: for inputs that pass validation the name handed to mangle_raw is    *)
(* "Java_" + escape(namespace) + "_" + escape(class) + "_" + escape(m), m  *)
(* the override if given and the function's name otherwise, with           *)
(* "__" + escape(args) appended iff an args descriptor was supplied;       *)
(* com.example / Example / addTwoNumbers gives                             *)
(* Java_com_example_Example_addTwoNumbers, and with args "II"              *)
(* Java_com_example_Example_addTwoNumbers__II.                             *)
C5_MangledNameFormat ==
    (pc = "expanded" /\ macro = "mangle" /\ AttrValid) =>
        LET prefix == Java_ \o escape_string(attr.package) \o <<95>>
                            \o escape_string(attr.class) \o <<95>>
                            \o escape_string(EffectiveMethod)
        IN /\ raw # None
           /\ attr.args = None => raw[1].name = prefix
           /\ attr.args # None =>
                raw[1].name = prefix \o <<95, 95>> \o escape_string(attr.args[1])
           /\ (/\ attr.package = com_example /\ attr.class = Example
               /\ attr.method = Some(addTwoNumbers)) =>
                /\ attr.args = None =>
                     raw[1].name = Java_com_example_Example_addTwoNumbers
                /\ attr.args = Some(<<73, 73>>) =>
                     raw[1].name = Java_com_example_Example_addTwoNumbers
                                        \o <<95, 95, 73, 73>>

(* the documented binding with args "II", expanded *)
C5_Witness ==
    /\ pc = "expanded" /\ macro = "mangle"
    /\ attr.package = com_example /\ attr.class = Example
    /\ attr.method = Some(addTwoNumbers) /\ attr.args = Some(<<73, 73>>)
    /\ raw # None
    /\ Len(raw[1].name) = 42

(* ---- C6 ---- *)
IsLowerHex(c) == c \in 48..57 \/ c \in 97..102

RECURSIVE HexValue(_)
HexValue(digits) ==
    IF digits = <<>> THEN 0
    ELSE LET d == digits[Len(digits)]
         IN 16 * HexValue(SubSeq(digits, 1, Len(digits) - 1))
                + (IF d \in 48..57 THEN d - 48 ELSE d - 87)

(* the output the table gives for one character; for a non-ASCII code      *)
(* point the hexadecimal digits have one of the widths                     *)
CharOutput(c, out, widths) ==
    IF c = 95 THEN out = <<95, 49>>
    ELSE IF c = 59 THEN out = <<95, 50>>
    ELSE IF c = 91 THEN out = <<95, 51>>
    ELSE IF c = 46 THEN out = <<95>>
    ELSE IF c < 128 THEN out = <<c>>
    ELSE /\ Len(out) - 2 \in widths
         /\ out[1] = 95 /\ out[2] = 48
         /\ \A i \in 3..Len(out) : IsLowerHex(out[i])
         /\ HexValue(SubSeq(out, 3, Len(out))) = c
         /\ Len(out) > 6 => out[3] # 48

(* escape_string(s) is the concatenation, left to right, of the outputs    *)
(* of its characters, and each of them is what the table says              *)
EscapedPerChar(widths) ==
    /\ es = Concat([i \in 1..Len(s) |-> escape_string(<<s[i]>>)])
    /\ Len(s) = 1 => CharOutput(s[1], es, widths)
    /\ Len(t) = 1 => CharOutput(t[1], et, widths)

(* C6 as stated: escape_string maps its input character by character, left *)
(* to right: `_` gives `_1`, `;` `_2`, `[` `_3`, `.` `_`, another ASCII    *)
(* character itself, a non-ASCII code point `_0` and its value in          *)
(* lowercase hexadecimal, zero-padded, exactly 4 digits.                   *)
C6_ExactlyFourHexDigits ==
    pc = "escaped" => EscapedPerChar({4})

(* C6 amended: ... a non-ASCII code point gives `_0` and its value in      *)
(* lowercase hexadecimal, zero-padded to at least 4 digits (5 or 6 digits  *)
(* for a code point above U+FFFF).                                         *)
C6_AtLeastFourHexDigits ==
    pc = "escaped" => EscapedPerChar({4, 5, 6})

(* "Hello", U+1F642, "world" escaped to Hello_01f642world *)
C6_Witness ==
    /\ pc = "escaped"
    /\ s = Hello_smile_world
    /\ es = <<72, 101, 108, 108, 111, 95, 48, 49, 102, 54, 52, 50,
              119, 111, 114, 108, 100>>
    /\ t = <<233>>
    /\ et = <<95, 48, 48, 48, 101, 57>>

(* ---- C7 ---- *)
IdentStart == Lower \cup Upper \cup {95, 36}
IdentPart == IdentStart \cup Digit

(* non-empty, first character in [A-Za-z_$], the others in [A-Za-z0-9_$] *)
IsIdentifier(str) ==
    /\ Len(str) > 0
    /\ str[1] \in IdentStart
    /\ \A i \in 2..Len(str) : str[i] \in IdentPart

(* the pieces of str between its '.' characters *)
RECURSIVE SplitDots(_)
SplitDots(str) ==
    IF \A i \in 1..Len(str) : str[i] # 46 THEN <<str>>
    ELSE LET d == CHOOSE i \in 1..Len(str) :
                    str[i] = 46 /\ \A j \in 1..(i - 1) : str[j] # 46
         IN <<SubSeq(str, 1, d - 1)>> \o SplitDots(SubSeq(str, d + 1, Len(str)))

IsDottedIdentifiers(str) ==
    \A k \in 1..Len(SplitDots(str)) : IsIdentifier(SplitDots(str)[k])

(* C7: is_valid_method accepts exactly the identifiers, is_valid_package   *)
(* exactly one or more identifiers joined by single '.', and               *)
(* is_valid_class is the same predicate as is_valid_package.               *)
C7_ValidatorsGrammar ==
    pc = "validated" =>
        /\ verdict.method = IsIdentifier(v)
        /\ verdict.package = IsDottedIdentifiers(v)
        /\ verdict.class = verdict.package

(* "com.example": a package, a class, not a method *)
C7_Witness ==
    /\ pc = "validated"
    /\ v = com_example
    /\ verdict.package /\ verdict.class /\ ~verdict.method

(* ---- C8 ---- *)
FirstFailure ==
    IF ~is_valid_package(attr.package)
    THEN CompileError(attr.package, "Invalid Java package name")
    ELSE IF ~is_valid_class(attr.class)
    THEN CompileError(attr.class, "Invalid Java class name")
    ELSE CompileError(EffectiveMethod, "Invalid Java method name")

(* C8: if the namespace, the class or the effective method name fails      *)
(* validation, mangle emits no function definition and yields exactly one  *)
(* diagnostic, the one of the first failing field in the order namespace,  *)
(* class, method; no name is computed and mangle_raw is not invoked.       *)
C8_FirstFailureOnly ==
    (pc = "expanded" /\ macro = "mangle" /\ ~AttrValid) =>
        /\ emitted = <<>>
        /\ diag = <<FirstFailure>>
        /\ raw = None
        /\ ~panicked

(* a valid namespace with an invalid class and an invalid method (the      *)
(* function's own name): the class is reported                             *)
C8_Witness ==
    /\ pc = "expanded" /\ macro = "mangle"
    /\ attr.package = com_example /\ attr.class = <<46>>
    /\ attr.method = None /\ func.ident = <<233>>
    /\ Len(diag) = 1 /\ diag[1].message = "Invalid Java class name"
    /\ emitted = <<>>

(* ---- C9 ---- *)
EmittedByAliasFlag(unless_same_name) ==
    /\ ~raw[1].alias =>
        /\ Len(emitted) = 1
        /\ IsEntryPoint(emitted[1], raw[1].name)
        /\ (unless_same_name /\ raw[1].name = func.ident)
            \/ \A i \in 1..Len(emitted) : emitted[i].item.ident # func.ident
    /\ raw[1].alias =>
        /\ Len(emitted) = 2
        /\ IsEntryPoint(emitted[1], raw[1].name)
        /\ IsAlias(emitted[2])
    /\ macro = "mangle" =>
        raw[1].alias = (IF attr.alias = None THEN TRUE ELSE attr.alias[1])

====
